---- MODULE Spec2Model ----
(***************************************************************************)
(* Model of src/utils.py: the action-token parser                          *)
(* (extract_features_from_action), the CSV reader (read_csv_file) and the  *)
(* session processor (CSVDataProcessor).                                   *)
(*                                                                         *)
(* Text is modelled as a sequence of one-character strings, so that the    *)
(* regular expressions of the source are computed character by character.  *)
(* Cells are single-line text: the alphabets below hold no line            *)
(* terminator.  Python's None is the value None below.                     *)
(***************************************************************************)
EXTENDS Integers, Sequences, FiniteSets, TLC

VARIABLES
    phrase,                       \* argument of extract_features_from_action
    parts,                        \* the components a phrase was assembled from
    parsed,                       \* value returned by extract_features_from_action
    trainFile,                    \* rows on disk at train_data_csv_path
    data,                         \* self.data
    is_training_data,             \* self.is_training_data
    headers,                      \* self.headers
    possible_actions_set,         \* self.possible_actions_set (in iteration order)
    possible_screens_set,         \* self.possible_screens_set (in iteration order)
    possible_configurations_set,  \* self.possible_configurations_set (in iteration order)
    possible_chaines_set,         \* self.possible_chaines_set (in iteration order)
    pc,                           \* position of the caller inside an entry point
    lastOp,                       \* the entry point called last
    result                        \* what that entry point returned or raised

vars == << phrase, parts, parsed, trainFile, data, is_training_data, headers,
           possible_actions_set, possible_screens_set,
           possible_configurations_set, possible_chaines_set,
           pc, lastOp, result >>

procVars == << trainFile, data, is_training_data, headers,
               possible_actions_set, possible_screens_set,
               possible_configurations_set, possible_chaines_set,
               pc, lastOp, result >>

parseVars == << phrase, parts, parsed >>

----------------------------------------------------------------------------
(* Bounds of the model.                                                    *)

\* longest phrase handed to the parser in SpecParse
MaxLen == 4

\* longest component A, S, C, Ch of a phrase A(S)<C>$Ch$ in SpecRoundTrip
MaxPartLen == 2

\* most rows in a CSV file (its first row included)
MaxRows == 2

----------------------------------------------------------------------------
(* Text helpers.                                                           *)

None == << "None" >>

Digits == { "0", "1", "2", "3", "4", "5", "6", "7", "8", "9" }

Whitespace == { " " }

\* str.lower() on one character
LowerChar(c) ==
    CASE c = "A" -> "a"
      [] c = "H" -> "h"
      [] c = "S" -> "s"
      [] c = "C" -> "c"
      [] c = "T" -> "t"
      [] OTHER -> c

\* Lower with the call of .lower() forgotten
LowerOmitted(s) == s

\* str.lower()
Lower(s) == [ i \in 1..Len(s) |-> LowerChar(s[i]) ]

RECURSIVE LStrip(_)
\* str.lstrip()
LStrip(s) ==
    IF s # << >> /\ Head(s) \in Whitespace THEN LStrip(Tail(s)) ELSE s

RECURSIVE RStrip(_)
\* str.rstrip()
RStrip(s) ==
    IF s # << >> /\ s[Len(s)] \in Whitespace
    THEN RStrip(SubSeq(s, 1, Len(s) - 1))
    ELSE s

\* str.strip()
Strip(s) == RStrip(LStrip(s))

RECURSIVE RunLen(_, _)
\* length of the longest prefix of s holding no character of stop:
\* what a greedy negated character class [^...]* consumes
RunLen(s, stop) ==
    IF s = << >> \/ Head(s) \in stop THEN 0 ELSE 1 + RunLen(Tail(s), stop)

\* re.match(r'^t\d+$', s) succeeds
IsTimeShaped(s) ==
    /\ Len(s) >= 2
    /\ s[1] = "t"
    /\ \A i \in 2..Len(s) : s[i] \in Digits

RECURSIVE IntOf(_)
\* int() of a string of decimal digits
IntOf(s) ==
    IF s = << >> THEN 0
    ELSE 10 * IntOf(SubSeq(s, 1, Len(s) - 1))
         + (CHOOSE d \in 0..9 : ToString(d) = s[Len(s)])

----------------------------------------------------------------------------
(* extract_features_from_action                                            *)

\* characters the action group [^(<$1]+ refuses
ActionStop == { "(", "<", "$", "1" }

\* One optional delimited group (?:open([^close]+)close)? tried at the head
\* of rest: the captured text (None when the group does not take part) and
\* what is left to match.
OptGroup(rest, open, close) ==
    IF rest # << >> /\ Head(rest) = open
    THEN LET body == Tail(rest)
             n    == RunLen(body, { close })
         IN  IF n >= 1 /\ n < Len(body)
             THEN [ text |-> SubSeq(body, 1, n),
                    rest |-> SubSeq(body, n + 2, Len(body)) ]
             ELSE [ text |-> None, rest |-> rest ]
    ELSE [ text |-> None, rest |-> rest ]

\* MatchGroups with the closing anchor $ of the pattern left out: the match
\* succeeds on a prefix of the phrase
MatchGroupsUnanchored(p) ==
    LET n1  == RunLen(p, ActionStop)
        g1  == IF n1 = 0 THEN None ELSE SubSeq(p, 1, n1)
        r1  == SubSeq(p, n1 + 1, Len(p))
        m2  == OptGroup(r1, "(", ")")
        m3  == OptGroup(m2.rest, "<", ">")
        m4  == OptGroup(m3.rest, "$", "$")
    IN  << g1, m2.text, m3.text, m4.text >>

\* The groups of the pattern on an already stripped phrase, or None when
\* re.match fails.  The pattern is deterministic: each class excludes the
\* character that may follow it, so backtracking finds no other match.
MatchGroups(p) ==
    LET n1  == RunLen(p, ActionStop)
        g1  == IF n1 = 0 THEN None ELSE SubSeq(p, 1, n1)
        r1  == SubSeq(p, n1 + 1, Len(p))
        m2  == OptGroup(r1, "(", ")")
        m3  == OptGroup(m2.rest, "<", ">")
        m4  == OptGroup(m3.rest, "$", "$")
    IN  IF m4.rest = << >>
        THEN << g1, m2.text, m3.text, m4.text >>
        ELSE None

\* x.strip() if x else None, then "x if x else None"
Cleaned(g) ==
    IF g = None THEN None
    ELSE IF Strip(g) = << >> THEN None ELSE Strip(g)

\* extract_features_from_action without the test that turns an action of
\* the form t<digits> into None
extract_features_keeping_time(ph) ==
    LET m == MatchGroups(Strip(ph))
    IN  IF m = None
        THEN << None, None, None, None >>
        ELSE << Cleaned(m[1]), Cleaned(m[2]), Cleaned(m[3]),
                IF Cleaned(m[4]) = None THEN None ELSE Lower(Cleaned(m[4])) >>

extract_features_from_action(ph) ==
    LET m == MatchGroups(Strip(ph))
    IN  IF m = None
        THEN << None, None, None, None >>
        ELSE LET action        == Cleaned(m[1])
                 screen        == Cleaned(m[2])
                 configuration == Cleaned(m[3])
                 chaine        == IF Cleaned(m[4]) = None THEN None
                                  ELSE Lower(Cleaned(m[4]))
             IN  << IF action # None /\ ~IsTimeShaped(action)
                    THEN action ELSE None,
                    screen, configuration, chaine >>

----------------------------------------------------------------------------
(* Values of the processor.                                                *)

\* an attribute that is None, and one that holds v
Nil == [ is_none |-> TRUE ]
Some(v) == [ is_none |-> FALSE, value |-> v ]

\* an exception leaving a function, and a value returned by it
Raised(e) == [ ok |-> FALSE, error |-> e ]
Returned(v) == [ ok |-> TRUE, value |-> v ]

Range(f) == { f[i] : i \in DOMAIN f }

\* the orders in which a set may be iterated
Orderings(S) ==
    { f \in [ 1..Cardinality(S) -> S ] :
        \A i, j \in 1..Cardinality(S) : f[i] = f[j] => i = j }

\* Iteration order of a set after values were added to it: the order of an
\* unmodified set is kept, the order of a grown set is any order.
IterationOrders(old, S) ==
    IF S = Range(old) THEN { old } ELSE Orderings(S)

RECURSIVE Gcd(_, _)
Gcd(a, b) == IF b = 0 THEN a ELSE Gcd(b, a % b)

\* the number n / d (d > 0), as a fraction in lowest terms
Quotient(n, d) == << n \div Gcd(n, d), d \div Gcd(n, d) >>

\* the number 0
Zero == << 0, 1 >>

----------------------------------------------------------------------------
(* read_csv_file                                                           *)

\* file is the sequence of rows csv.reader yields; has_header is True at
\* both call sites
read_csv_file(file) ==
    IF file = << >>
    THEN Raised("IndexError")
    ELSE LET header  == file[1]
             rowData == Tail(file)
         IN  Returned(<< header >> \o rowData)

----------------------------------------------------------------------------
(* CSVDataProcessor                                                        *)

\* row[index:], with Python's 0-based index
Slice(row, index) == SubSeq(row, index + 1, Len(row))

\* the four kinds of feature, in the order of the parser's result
Kinds == << "action", "screen", "configuration", "chaine" >>

\* ScannedFeatures with the scan starting one cell early (index 1 for a
\* training row): the navigator cell is parsed as a token
ScannedFeaturesFromNavigator(rows, training, k) ==
    LET index == IF training THEN 1 ELSE 0
    IN  UNION { { extract_features_from_action(Slice(rows[r], index)[c])[k] :
                    c \in 1..Len(Slice(rows[r], index)) } :
                r \in 1..Len(rows) } \ { None }

\* The values of field k that extract_all_possible_features adds to the
\* k-th set while scanning rows: every cell of row[index:] of every row.
ScannedFeatures(rows, training, k) ==
    LET index == IF training THEN 2 ELSE 1
    IN  UNION { { extract_features_from_action(Slice(rows[r], index)[c])[k] :
                    c \in 1..Len(Slice(rows[r], index)) } :
                r \in 1..Len(rows) } \ { None }

\* one column label; f"occurrence of {kind} '{value}' " for a vocabulary column
Label(kind, value) == << kind, value >>

\* the list create_headers returns for the four sets in iteration order
create_headers(training, actions, screens, configurations, chaines) ==
    LET initial_columns ==
            (IF training THEN << Label("base", << "user" >>) >> ELSE << >>)
            \o << Label("base", << "navigator" >>),
                  Label("base", << "total_actions" >>),
                  Label("base", << "session_duration" >>),
                  Label("base", << "avg_speed" >>) >>
    IN  initial_columns
        \o [ i \in 1..Len(actions) |-> Label("action", actions[i]) ]
        \o [ i \in 1..Len(screens) |-> Label("screen", screens[i]) ]
        \o [ i \in 1..Len(configurations) |->
                 Label("configuration", configurations[i]) ]
        \o [ i \in 1..Len(chaines) |-> Label("chaine", chaines[i]) ]

RECURSIVE Occurrences(_, _, _)
\* occurrences.get(value, 0) after the tallying loop over actions, for field k
Occurrences(actions, k, value) ==
    IF actions = << >> THEN 0
    ELSE (IF extract_features_from_action(Head(actions))[k] = value
          THEN 1 ELSE 0)
         + Occurrences(Tail(actions), k, value)

\* OccurrenceColumns walking the vocabulary in the reverse of the order
\* create_headers used
OccurrenceColumnsReversed(actions, k, vocabulary) ==
    [ i \in 1..Len(vocabulary) |->
        Occurrences(actions, k, vocabulary[Len(vocabulary) + 1 - i]) ]

\* the entries appended for one vocabulary set, in its iteration order
OccurrenceColumns(actions, k, vocabulary) ==
    [ i \in 1..Len(vocabulary) |-> Occurrences(actions, k, vocabulary[i]) ]

\* SessionDuration defaulting to "0" when the row has no time marker
SessionDurationDefault(times) ==
    IF times = << >>
    THEN Returned(<< "0" >>)
    ELSE Returned(Tail(times[Len(times)]))

\* SessionDuration reading the first time marker, times[0][1:]
SessionDurationFirst(times) ==
    IF times = << >>
    THEN Raised("IndexError")
    ELSE Returned(Tail(times[1]))

\* session_duration = times[-1][1:], which raises on an empty list
SessionDuration(times) ==
    IF times = << >>
    THEN Raised("IndexError")
    ELSE Returned(Tail(times[Len(times)]))

\* AvgSpeed falling back to total_actions when the duration is 0
AvgSpeedFallback(total_actions, session_duration) ==
    IF IntOf(session_duration) > 0
    THEN Quotient(total_actions, IntOf(session_duration))
    ELSE << total_actions, 1 >>

\* total_actions/int(session_duration) if int(session_duration) > 0 else 0
AvgSpeed(total_actions, session_duration) ==
    IF IntOf(session_duration) > 0
    THEN Quotient(total_actions, IntOf(session_duration))
    ELSE Zero

\* extract_data_from_row on one row, with the four sets in iteration order
extract_data_from_row(row, training, vActions, vScreens, vConfigs, vChaines) ==
    IF training /\ row = << >>
    THEN Raised("IndexError")
    ELSE LET user == IF training THEN << row[1] >> ELSE << >>
             row1 == IF training THEN Tail(row) ELSE row
         IN  IF row1 = << >>
             THEN Raised("IndexError")
             ELSE LET navigator     == row1[1]
                      actions       == Tail(row1)
                      all_actions   ==
                          SelectSeq(actions, LAMBDA a : ~IsTimeShaped(a))
                      total_actions == Len(all_actions)
                      times         ==
                          SelectSeq(actions, LAMBDA a : IsTimeShaped(a))
                      session_duration == SessionDuration(times)
                  IN  IF ~session_duration.ok
                      THEN session_duration
                      ELSE Returned(
                             user
                             \o << navigator, total_actions,
                                   session_duration.value,
                                   AvgSpeed(total_actions,
                                            session_duration.value) >>
                             \o OccurrenceColumns(actions, 1, vActions)
                             \o OccurrenceColumns(actions, 2, vScreens)
                             \o OccurrenceColumns(actions, 3, vConfigs)
                             \o OccurrenceColumns(actions, 4, vChaines))

\* the list comprehension of process_data over self.data
ProcessedRows(rows, training) ==
    [ i \in 1..Len(rows) |->
        extract_data_from_row(rows[i], training,
                              possible_actions_set, possible_screens_set,
                              possible_configurations_set,
                              possible_chaines_set) ]

\* What _initialise may leave behind: the exception of read_csv_file with
\* nothing assigned, or the training rows loaded, the four sets grown by
\* extract_all_possible_features and the headers made from them.
InitialiseOutcomes ==
    LET train_data == read_csv_file(trainFile)
    IN  IF ~train_data.ok
        THEN { [ raised |-> TRUE, data |-> data,
                 is_training_data |-> is_training_data, headers |-> headers,
                 actions |-> possible_actions_set,
                 screens |-> possible_screens_set,
                 configurations |-> possible_configurations_set,
                 chaines |-> possible_chaines_set ] }
        ELSE LET rows == train_data.value
                 Grown(old, k) ==
                     IterationOrders(old,
                         Range(old) \cup ScannedFeatures(rows, TRUE, k))
             IN  { [ raised |-> FALSE, data |-> Some(rows),
                     is_training_data |-> Some(TRUE),
                     headers |-> Some(create_headers(TRUE, a, s, c, h)),
                     actions |-> a, screens |-> s,
                     configurations |-> c, chaines |-> h ] :
                   a \in Grown(possible_actions_set, 1),
                   s \in Grown(possible_screens_set, 2),
                   c \in Grown(possible_configurations_set, 3),
                   h \in Grown(possible_chaines_set, 4) }

\* the attributes take the values of outcome o of _initialise
Initialised(o) ==
    /\ data' = o.data
    /\ is_training_data' = o.is_training_data
    /\ headers' = o.headers
    /\ possible_actions_set' = o.actions
    /\ possible_screens_set' = o.screens
    /\ possible_configurations_set' = o.configurations
    /\ possible_chaines_set' = o.chaines

----------------------------------------------------------------------------
(* Inputs: cells, rows and files.                                          *)

Cell_user  == << "u", "s", "e", "r" >>
Cell_nav   == << "n", "a", "v" >>
Cell_act   == << "a", "c", "t" >>
Cell_u1    == << "u", "1" >>
Cell_ff    == << "f", "f" >>
Tok_t0     == << "t", "0" >>
Tok_t5     == << "t", "5" >>
Tok_t7     == << "t", "7" >>
Tok_t12    == << "t", "1", "2" >>
Tok_a      == << "a" >>
Tok_b      == << "b" >>
Tok_a1     == << "a", "1" >>
Tok_a_s    == << "a", "(", "s", ")" >>
Tok_b_z    == << "b", "(", "z", ")" >>
Tok_full   == << "a", "(", "s", ")", "<", "c", ">", "$", "H", "$" >>
Tok_empty  == << >>

\* rows a training file may hold: user, navigator, tokens
TrainRowPool ==
    { << Cell_user, Cell_nav, Cell_act >>,
      << Cell_u1, Cell_ff, Tok_t7, Tok_a_s, Tok_t5, Tok_a >>,
      << Cell_u1, Cell_ff, Tok_full, Tok_empty, Tok_a1, Tok_t12, Tok_b,
         Tok_t0 >> }

\* rows a test file may hold: navigator, tokens
TestRowPool ==
    { << Cell_nav, Cell_act >>,
      << Cell_ff, Tok_a_s, Tok_t5, Tok_b_z, Tok_a_s >> }

\* the files of at most MaxRows rows drawn from pool
FilesOf(pool) == UNION { [ 1..n -> pool ] : n \in 0..MaxRows }

\* characters of the phrases handed to the parser alone
ParseAlphabet == { "a", "t", "1", "5", " ", "(", ")", "<", ">", "$" }

Phrases == UNION { [ 1..n -> ParseAlphabet ] : n \in 0..MaxLen }

\* components of at most MaxPartLen characters over alphabet
PartsOver(alphabet) == UNION { [ 1..n -> alphabet ] : n \in 0..MaxPartLen }

\* the phrase A(S)<C>$Ch$
Assemble(p) ==
    p[1] \o << "(" >> \o p[2] \o << ")" >>
         \o << "<" >> \o p[3] \o << ">" >>
         \o << "$" >> \o p[4] \o << "$" >>

----------------------------------------------------------------------------
(* The processor as a state machine.                                       *)

Idle == [ at |-> "idle" ]

\* process_data was called with these arguments and has not run yet
Calling(dataArg, training) ==
    [ at |-> "process_data", data |-> dataArg, is_training_data |-> training ]

NoResult == [ kind |-> "none" ]
Pending == [ kind |-> "pending" ]
Error(e) == [ kind |-> "error", error |-> e ]
Self == [ kind |-> "self" ]

\* pd.DataFrame(data=rows, columns=columns)
DataFrame(rows, columns) ==
    [ kind |-> "table", columns |-> columns, rows |-> rows ]

\* the attributes as they are, in the shape of an outcome of _initialise
Current ==
    [ raised |-> FALSE, data |-> data,
      is_training_data |-> is_training_data, headers |-> headers,
      actions |-> possible_actions_set, screens |-> possible_screens_set,
      configurations |-> possible_configurations_set,
      chaines |-> possible_chaines_set ]

ProcInit ==
    /\ data = Nil
    /\ is_training_data = Nil
    /\ headers = Nil
    /\ possible_actions_set = << >>
    /\ possible_screens_set = << >>
    /\ possible_configurations_set = << >>
    /\ possible_chaines_set = << >>
    /\ pc = Idle
    /\ lastOp = [ name |-> "__init__" ]
    /\ result = NoResult

Init ==
    /\ trainFile \in FilesOf(TrainRowPool)
    /\ ProcInit
    /\ phrase = << >>
    /\ parts = << >>
    /\ parsed = Nil

\* with CSVDataProcessor(...) as processor
enter ==
    /\ pc.at = "idle"
    /\ lastOp' = [ name |-> "__enter__" ]
    /\ \E o \in InitialiseOutcomes :
         /\ Initialised(o)
         /\ result' = IF o.raised THEN Error("IndexError") ELSE Self
    /\ UNCHANGED << pc, trainFile, parseVars >>

\* get_processed_train_data up to its call of process_data
get_processed_train_data ==
    /\ pc.at = "idle"
    /\ lastOp' = [ name |-> "get_processed_train_data" ]
    /\ \E o \in (IF data = Nil \/ headers = Nil
                 THEN InitialiseOutcomes ELSE { Current }) :
         /\ Initialised(o)
         /\ pc' = IF o.raised THEN Idle ELSE Calling(Nil, TRUE)
         /\ result' = IF o.raised THEN Error("IndexError") ELSE Pending
    /\ UNCHANGED << trainFile, parseVars >>

\* get_processed_test_data(test_data_csv_path) up to its call of
\* process_data; testFile is the sequence of rows at that path
get_processed_test_data(testFile) ==
    /\ pc.at = "idle"
    /\ lastOp' = [ name |-> "get_processed_test_data" ]
    /\ \E o \in (IF headers = Nil THEN InitialiseOutcomes ELSE { Current }) :
         LET test_data == read_csv_file(testFile)
         IN  IF o.raised \/ ~test_data.ok
             THEN /\ Initialised(o)
                  /\ pc' = Idle
                  /\ result' = Error("IndexError")
             ELSE /\ Initialised([ o EXCEPT
                                     !.is_training_data = Some(FALSE) ])
                  /\ pc' = Calling(Some(test_data.value), FALSE)
                  /\ result' = Pending
    /\ UNCHANGED << trainFile, parseVars >>

\* process_data(data, is_training_data), and the return of its caller
process_data ==
    /\ pc.at = "process_data"
    /\ IF ~pc.is_training_data /\ pc.data = Nil
       THEN /\ result' = Error("AssertionError")
            /\ UNCHANGED << data, is_training_data >>
       ELSE LET newData  == IF pc.is_training_data THEN data ELSE pc.data
                columns  == IF pc.is_training_data
                            THEN headers.value ELSE Tail(headers.value)
                processed_csv_data ==
                    ProcessedRows(newData.value, pc.is_training_data)
            IN  /\ data' = newData
                /\ is_training_data' = Some(pc.is_training_data)
                /\ result' =
                     IF \E i \in 1..Len(processed_csv_data) :
                            ~processed_csv_data[i].ok
                     THEN Error("IndexError")
                     ELSE DataFrame(
                            [ i \in 1..Len(processed_csv_data) |->
                                processed_csv_data[i].value ],
                            columns)
    /\ pc' = Idle
    /\ UNCHANGED << headers, possible_actions_set, possible_screens_set,
                    possible_configurations_set, possible_chaines_set,
                    lastOp, trainFile, parseVars >>

Next ==
    \/ enter
    \/ get_processed_train_data
    \/ \E testFile \in FilesOf(TestRowPool) : get_processed_test_data(testFile)
    \/ process_data

Spec == Init /\ [][Next]_vars

----------------------------------------------------------------------------
(* The parser alone.                                                       *)

\* extract_features_from_action(phrase) is called once
Parse ==
    /\ parsed = Nil
    /\ parsed' = Some(extract_features_from_action(phrase))
    /\ UNCHANGED << phrase, parts, procVars >>

\* any phrase of at most MaxLen characters
InitParse ==
    /\ phrase \in Phrases
    /\ parts = << >>
    /\ parsed = Nil
    /\ trainFile = << >>
    /\ ProcInit

SpecParse == InitParse /\ [][Parse]_vars

\* any phrase A(S)<C>$Ch$ of components of at most MaxPartLen characters
InitRoundTrip ==
    /\ parts \in PartsOver({ "t", "5", " " }) \X PartsOver({ "s", " " })
                 \X PartsOver({ "c", " " }) \X PartsOver({ "H", " " })
    /\ phrase = Assemble(parts)
    /\ parsed = Nil
    /\ trainFile = << >>
    /\ ProcInit

SpecRoundTrip == InitRoundTrip /\ [][Parse]_vars

----------------------------------------------------------------------------
(* Vocabulary of the statements below.                                     *)

AllAbsent == << None, None, None, None >>

\* the k-th vocabulary set, in iteration order
Vocabulary(k) ==
    CASE k = 1 -> possible_actions_set
      [] k = 2 -> possible_screens_set
      [] k = 3 -> possible_configurations_set
      [] k = 4 -> possible_chaines_set

\* the cells after the navigator
TokenCells(row, training) == Slice(row, IF training THEN 2 ELSE 1)

\* how many of the cells parse to value in field k
CountCells(cells, k, value) ==
    Cardinality({ j \in 1..Len(cells) :
                    extract_features_from_action(cells[j])[k] = value })

\* the values, None apart, that field k takes on cells
FieldValues(cells, k) ==
    { extract_features_from_action(cells[j])[k] : j \in 1..Len(cells) }
        \ { None }

\* positions of the time-shaped cells
TimePositions(cells) == { j \in 1..Len(cells) : IsTimeShaped(cells[j]) }

HasNoTimeCell(row, training) == TimePositions(TokenCells(row, training)) = { }

\* places of the fixed entries in a feature vector
TotalAt(training) == IF training THEN 3 ELSE 2
DurationAt(training) == IF training THEN 4 ELSE 3
SpeedAt(training) == IF training THEN 5 ELSE 4

\* the schema process_data uses in the given mode
SchemaOf(training) == IF training THEN headers.value ELSE Tail(headers.value)

----------------------------------------------------------------------------
(* C1 *)

\* C1: every projected row has as many entries as the schema of the call
\* (self.headers in training mode, self.headers[1:] in test mode), every
\* vocabulary member has a column, and the entry under the column of
\* <kind> <value> is the number of token cells of the row whose parsed
\* <kind> is <value> (0 if none); values outside the vocabulary add no
\* entry and raise nothing.
C1_VectorFollowsSchema ==
    result.kind = "table" =>
        LET training == is_training_data.value
            schema   == SchemaOf(training)
        IN  /\ result.columns = schema
            /\ Len(result.rows) = Len(data.value)
            /\ \A k \in 1..4 : \A v \in Range(Vocabulary(k)) :
                   \E p \in 1..Len(schema) : schema[p] = Label(Kinds[k], v)
            /\ \A i \in 1..Len(result.rows) :
                   /\ Len(result.rows[i]) = Len(schema)
                   /\ \A p \in 1..Len(schema) : \A k \in 1..4 :
                          schema[p][1] = Kinds[k] =>
                              result.rows[i][p] =
                                  CountCells(TokenCells(data.value[i], training),
                                             k, schema[p][2])

\* a test table over a vocabulary of two actions or more, with a row that
\* holds a screen outside the vocabulary and a vocabulary screen twice
C1_Witness ==
    /\ result.kind = "table"
    /\ is_training_data = Some(FALSE)
    /\ Len(possible_actions_set) >= 2
    /\ \E i \in 1..Len(data.value) :
          LET cells == TokenCells(data.value[i], FALSE)
          IN  /\ \E v \in FieldValues(cells, 2) :
                     v \notin Range(possible_screens_set)
              /\ \E v \in Range(possible_screens_set) :
                     CountCells(cells, 2, v) = 2

----------------------------------------------------------------------------
(* C2 *)

\* the values of field k on the token cells (row[2:]) of the rows of the
\* training file
TrainingFeatures(k) ==
    UNION { FieldValues(TokenCells(trainFile[r], TRUE), k) :
            r \in 1..Len(trainFile) }

VocabularyIsTraining ==
    \A k \in 1..4 :
        /\ Cardinality(Range(Vocabulary(k))) = Len(Vocabulary(k))
        /\ Range(Vocabulary(k)) =
               IF headers = Nil THEN { } ELSE TrainingFeatures(k)

\* C2: whatever entry points are called, the four sets hold exactly the
\* fields parsed from the token cells of the rows of the training file,
\* without duplicates (nothing before the first initialisation, nothing
\* from a test file), and once built neither the sets, nor their order,
\* nor the headers change.
C2_VocabularyFromTrainingOnly ==
    [][ /\ VocabularyIsTraining
        /\ headers # Nil =>
               UNCHANGED << headers, possible_actions_set,
                            possible_screens_set,
                            possible_configurations_set,
                            possible_chaines_set >> ]_vars

\* a test file with a screen the training file lacks has been processed
C2_Witness ==
    /\ lastOp.name = "get_processed_test_data"
    /\ pc.at = "idle"
    /\ result.kind = "table"
    /\ possible_screens_set # << >>
    /\ \E i \in 1..Len(data.value) :
          << "z" >> \in FieldValues(TokenCells(data.value[i], FALSE), 2)
    /\ << "z" >> \notin Range(possible_screens_set)

----------------------------------------------------------------------------
(* C3 *)

\* C3: the table get_processed_train_data returns is the projection of the
\* rows of the training file, whatever was called before.
C3_TrainTableOfTrainingRows ==
    ( /\ lastOp.name = "get_processed_train_data"
      /\ result.kind = "table" ) =>
        /\ data.value = read_csv_file(trainFile).value
        /\ Len(result.rows) = Len(trainFile)
        /\ \A i \in 1..Len(result.rows) :
               result.rows[i][1] = trainFile[i][1]

----------------------------------------------------------------------------
(* C4 *)

\* C4: the first row of a file (its header) reaches neither
\* extract_all_possible_features nor extract_data_from_row: the rows
\* _initialise keeps for them are the rows after the header, and the
\* vocabulary holds the fields of those rows only.
C4_HeaderRowNeverSeen ==
    /\ ( lastOp.name = "__enter__" /\ result.kind = "self" ) =>
           data.value = Tail(trainFile)
    /\ headers # Nil =>
           \A k \in 1..4 :
               Range(Vocabulary(k)) =
                   UNION { FieldValues(TokenCells(trainFile[r], TRUE), k) :
                           r \in 2..Len(trainFile) }

----------------------------------------------------------------------------
(* C5 *)

\* the rows the pending call of process_data will project
RowsToProcess == IF pc.is_training_data THEN data.value ELSE pc.data.value

\* C5: when a row handed to process_data has no time-shaped cell among its
\* token cells, extract_data_from_row raises on it, process_data returns
\* no table (the caller gets the error), and the four sets and the headers
\* are as before the call.
C5_MissingDurationFails ==
    [][ ( /\ pc.at = "process_data"
          /\ \E i \in 1..Len(RowsToProcess) :
                 HasNoTimeCell(RowsToProcess[i], pc.is_training_data) )
        => /\ \A i \in 1..Len(RowsToProcess) :
                  HasNoTimeCell(RowsToProcess[i], pc.is_training_data) =>
                      ~extract_data_from_row(
                           RowsToProcess[i], pc.is_training_data,
                           possible_actions_set, possible_screens_set,
                           possible_configurations_set,
                           possible_chaines_set).ok
           /\ result'.kind = "error"
           /\ pc'.at = "idle"
           /\ UNCHANGED << headers, possible_actions_set,
                           possible_screens_set,
                           possible_configurations_set,
                           possible_chaines_set >> ]_vars

\* process_data has failed on rows of which the first has a time marker
\* and the second has none, with the vocabulary built
C5_Witness ==
    /\ lastOp.name = "get_processed_train_data"
    /\ pc.at = "idle"
    /\ result.kind = "error"
    /\ data # Nil
    /\ is_training_data = Some(TRUE)
    /\ possible_actions_set # << >>
    /\ Len(data.value) >= 2
    /\ ~HasNoTimeCell(data.value[1], TRUE)
    /\ HasNoTimeCell(data.value[2], TRUE)

----------------------------------------------------------------------------
(* C6 *)

\* the lower-case form of a component
LowerCased(s) ==
    [ i \in 1..Len(s) |-> IF s[i] = "H" THEN "h" ELSE s[i] ]

\* s is not empty and neither starts nor ends with white space
IsTrimmed(s) == s # << >> /\ s[1] # " " /\ s[Len(s)] # " "

\* C6 as stated: a phrase A(S)<C>$Ch$ parses to (A, S, C, lowercase(Ch)).
C6_RoundTripAsStated ==
    parsed # Nil =>
        parsed.value = << parts[1], parts[2], parts[3], LowerCased(parts[4]) >>

\* C6, amended: a phrase A(S)<C>$Ch$ whose four components are not empty
\* and neither start nor end with white space, and whose A is not of the
\* form t<digits>, parses to (A, S, C, lowercase(Ch)).
C6_RoundTrip ==
    ( /\ parsed # Nil
      /\ \A k \in 1..4 : IsTrimmed(parts[k])
      /\ ~IsTimeShaped(parts[1]) ) =>
        parsed.value = << parts[1], parts[2], parts[3], LowerCased(parts[4]) >>

\* the phrase t(s)<c>$H$ has been parsed to (t, s, c, h)
C6_Witness ==
    /\ parts = << << "t" >>, << "s" >>, << "c" >>, << "H" >> >>
    /\ parsed = Some(<< << "t" >>, << "s" >>, << "c" >>, << "h" >> >>)

----------------------------------------------------------------------------
(* C7 *)

\* the run of characters of the stripped phrase before the first of ( < $ 1
ActionRun(ph) == SubSeq(Strip(ph), 1, RunLen(Strip(ph), ActionStop))

\* the action text of the phrase meets the character 1: the first of the
\* characters ( < $ 1 in the stripped phrase is a 1
ActionMeetsOne(ph) ==
    /\ Len(ActionRun(ph)) < Len(Strip(ph))
    /\ Strip(ph)[Len(ActionRun(ph)) + 1] = "1"

----------------------------------------------------------------------------
(* C8 *)

\* the entries total_actions and avg_speed of a vector are those of the row
SpeedFollows(vec, row, training) ==
    LET cells == TokenCells(row, training)
        total == Cardinality({ j \in 1..Len(cells) : ~IsTimeShaped(cells[j]) })
        dur   == IntOf(vec[DurationAt(training)])
        speed == vec[SpeedAt(training)]
    IN  /\ vec[TotalAt(training)] = total
        /\ IF dur > 0
           THEN speed[2] > 0 /\ speed[1] * dur = total * speed[2]
           ELSE speed = Zero

\* C8: a row with a time-shaped cell is projected without error, in the
\* mode of the processor; its total_actions is the number of token cells
\* that are not time-shaped (cells parsing to nothing included) and its
\* avg_speed is total_actions / session_duration when the duration is
\* positive and 0 when it is 0.
C8_AvgSpeed ==
    /\ ( data # Nil /\ is_training_data # Nil ) =>
           \A i \in 1..Len(data.value) :
               ~HasNoTimeCell(data.value[i], is_training_data.value) =>
                   LET r == extract_data_from_row(
                                data.value[i], is_training_data.value,
                                possible_actions_set, possible_screens_set,
                                possible_configurations_set,
                                possible_chaines_set)
                   IN  /\ r.ok
                       /\ SpeedFollows(r.value, data.value[i],
                                       is_training_data.value)
    /\ result.kind = "table" =>
           \A i \in 1..Len(result.rows) :
               SpeedFollows(result.rows[i], data.value[i],
                            is_training_data.value)

\* a table holds a row of duration 0 with an empty cell counted (speed 0)
\* and a row of positive duration
C8_Witness ==
    /\ result.kind = "table"
    /\ is_training_data = Some(TRUE)
    /\ \E i \in 1..Len(result.rows) :
          /\ \E j \in 3..Len(data.value[i]) :
                 /\ data.value[i][j] = << >>
                 /\ extract_features_from_action(data.value[i][j]) = AllAbsent
          /\ result.rows[i][TotalAt(TRUE)] = 4
          /\ result.rows[i][DurationAt(TRUE)] = << "0" >>
          /\ result.rows[i][SpeedAt(TRUE)] = Zero
    /\ \E i \in 1..Len(result.rows) :
          /\ result.rows[i][DurationAt(TRUE)] = << "5" >>
          /\ result.rows[i][SpeedAt(TRUE)] = << 2, 5 >>

----------------------------------------------------------------------------
(* C9 *)

\* the place of the last time-shaped cell
LastTimePosition(cells) ==
    CHOOSE j \in TimePositions(cells) :
        \A m \in TimePositions(cells) : m <= j

\* the digits of a time marker
DigitsOf(cell) == SubSeq(cell, 2, Len(cell))

\* C9: session_duration of a projected row is the digit suffix of the last
\* time-shaped cell in the order of the row, whatever the values of the
\* earlier markers and whatever follows it.
C9_DurationOfLastMarker ==
    result.kind = "table" =>
        \A i \in 1..Len(result.rows) :
            LET training == is_training_data.value
                cells    == TokenCells(data.value[i], training)
            IN  /\ TimePositions(cells) # { }
                /\ result.rows[i][DurationAt(training)] =
                       DigitsOf(cells[LastTimePosition(cells)])

\* a projected row whose earlier marker is larger than its last one, with
\* a cell after the last marker
C9_Witness ==
    /\ result.kind = "table"
    /\ \E i \in 1..Len(result.rows) :
          LET training == is_training_data.value
              cells    == TokenCells(data.value[i], training)
              last     == LastTimePosition(cells)
          IN  /\ TimePositions(cells) # { }
              /\ last < Len(cells)
              /\ \E j \in TimePositions(cells) :
                     /\ j < last
                     /\ IntOf(DigitsOf(cells[j])) > IntOf(DigitsOf(cells[last]))
              /\ result.rows[i][DurationAt(training)] = DigitsOf(cells[last])

----------------------------------------------------------------------------
(* C10 *)

\* the strings t<digits> of at most MaxLen characters over three digits
TimeMarkers ==
    UNION { { << "t" >> \o d : d \in [ 1..n -> { "0", "1", "5" } ] } :
            n \in 1..(MaxLen - 1) }

\* the cells that are not time-shaped, in order
ActionShaped(cells) == SelectSeq(cells, LAMBDA c : ~IsTimeShaped(c))

\* C10: every string t<digits> parses to four absent fields; hence the
\* vocabulary is the one the action-shaped cells of the training rows
\* give, and the tallies of a projected row, computed over all its token
\* cells, are the tallies over its action-shaped cells.
C10_TimeMarkersAreInert ==
    /\ \A s \in TimeMarkers :
           IsTimeShaped(s) /\ extract_features_from_action(s) = AllAbsent
    /\ headers # Nil =>
           \A k \in 1..4 :
               Range(Vocabulary(k)) =
                   UNION { FieldValues(
                               ActionShaped(TokenCells(trainFile[r], TRUE)), k) :
                           r \in 1..Len(trainFile) }
    /\ result.kind = "table" =>
           \A i \in 1..Len(result.rows) :
               LET training == is_training_data.value
                   schema   == SchemaOf(training)
                   cells    == TokenCells(data.value[i], training)
               IN  \A p \in 1..Len(schema) : \A k \in 1..4 :
                       schema[p][1] = Kinds[k] =>
                           result.rows[i][p] =
                               CountCells(ActionShaped(cells), k, schema[p][2])

\* a training table whose rows hold the markers t12 and t5 beside actions
C10_Witness ==
    /\ result.kind = "table"
    /\ lastOp.name = "get_processed_train_data"
    /\ possible_actions_set # << >>
    /\ \E i \in 1..Len(data.value) : \E j \in 1..Len(data.value[i]) :
          data.value[i][j] = Tok_t12
    /\ \E i \in 1..Len(data.value) : \E j \in 1..Len(data.value[i]) :
          data.value[i][j] = Tok_t5

====
